---- MODULE Spec2Model ----
(***************************************************************************)
(* PDF Buddy: the capture-and-compose pipeline of the background service   *)
(* worker (handleGeneratePDF, the context-menu listener and                *)
(* generatePdfFromTab), the watermark validation of security.js and the    *)
(* watermark rendering of watermark.js / pdf-lib.js.                       *)
(*                                                                         *)
(* JavaScript strings are sequences of one-character strings, a missing    *)
(* or non-string value is UndefStr, a missing or non-numeric number is     *)
(* NotANumber, and opacity is counted in tenths (5 is 0.5).                *)
(***************************************************************************)
EXTENDS Integers, Sequences, FiniteSets, TLC

(***************************************************************************)
(* Bounds of the model.                                                    *)
(***************************************************************************)
MaxReqs == 2

Reqs == 1..MaxReqs

(***************************************************************************)
(* Values.                                                                 *)
(***************************************************************************)
UndefStr == <<"undefined">>
NotANumber == -9999
Undef == "undefined"

UpperChars == <<"A", "B", "C", "D", "E", "F", "G", "H", "I", "J", "K", "L", "M",
                "N", "O", "P", "Q", "R", "S", "T", "U", "V", "W", "X", "Y", "Z">>
LowerChars == <<"a", "b", "c", "d", "e", "f", "g", "h", "i", "j", "k", "l", "m",
                "n", "o", "p", "q", "r", "s", "t", "u", "v", "w", "x", "y", "z">>
Digits == {"0", "1", "2", "3", "4", "5", "6", "7", "8", "9"}
HexDigits == Digits \cup {"A", "B", "C", "D", "E", "F", "a", "b", "c", "d", "e", "f"}
Whitespace == {" "}

toLowerChar(c) ==
  IF \E i \in 1..26 : UpperChars[i] = c
  THEN LowerChars[CHOOSE i \in 1..26 : UpperChars[i] = c]
  ELSE c

toLowerCase(s) == [i \in 1..Len(s) |-> toLowerChar(s[i])]

RECURSIVE removeChars(_, _)
removeChars(s, set) ==
  IF s = <<>> THEN <<>>
  ELSE IF Head(s) \in set THEN removeChars(Tail(s), set)
       ELSE <<Head(s)>> \o removeChars(Tail(s), set)

RECURSIVE trimLeft(_)
trimLeft(s) ==
  IF s # <<>> /\ Head(s) \in Whitespace THEN trimLeft(Tail(s)) ELSE s

RECURSIVE trimRight(_)
trimRight(s) ==
  IF s # <<>> /\ s[Len(s)] \in Whitespace
  THEN trimRight(SubSeq(s, 1, Len(s) - 1)) ELSE s

trim(s) == trimRight(trimLeft(s))

\* first index >= i of s whose character is not in set (Len(s)+1 if none)
RECURSIVE skipWhile(_, _, _)
skipWhile(s, i, set) ==
  IF i <= Len(s) /\ s[i] \in set THEN skipWhile(s, i + 1, set) ELSE i

(***************************************************************************)
(* security.js: sanitizeString.  Each HTML special character is replaced   *)
(* by its entity; '&' is replaced first, so the entities themselves are    *)
(* not escaped again within one call.                                      *)
(***************************************************************************)
escapeChar(c) ==
  CASE c = "&"  -> <<"&", "a", "m", "p", ";">>
    [] c = "<"  -> <<"&", "l", "t", ";">>
    [] c = ">"  -> <<"&", "g", "t", ";">>
    [] c = "\"" -> <<"&", "q", "u", "o", "t", ";">>
    [] c = "'"  -> <<"&", "#", "0", "3", "9", ";">>
    [] OTHER    -> <<c>>

RECURSIVE escapeAll(_)
escapeAll(s) ==
  IF s = <<>> THEN <<>> ELSE escapeChar(Head(s)) \o escapeAll(Tail(s))

sanitizeString(input) ==
  IF input = UndefStr THEN <<>> ELSE escapeAll(input)

(***************************************************************************)
(* security.js: validateColor, validateFontFamily, validateNumberRange.    *)
(***************************************************************************)
hexPattern(color) ==
  /\ Len(color) \in {4, 7}
  /\ color[1] = "#"
  /\ \A i \in 2..Len(color) : color[i] \in HexDigits

\* \s* <chars of set>+ \s* starting at i: the index after it, 0 if no match
afterComponent(s, i, set) ==
  LET p == skipWhile(s, i, Whitespace)
      q == skipWhile(s, p, set)
  IN IF q > p THEN skipWhile(s, q, Whitespace) ELSE 0

hasAt(s, i, c) == i >= 1 /\ i <= Len(s) /\ s[i] = c

rgbPattern(color) ==
  LET s == toLowerCase(color)
      a == afterComponent(s, 5, Digits)
      b == afterComponent(s, a + 1, Digits)
      c == afterComponent(s, b + 1, Digits)
  IN /\ Len(s) >= 4
     /\ SubSeq(s, 1, 4) = <<"r", "g", "b", "(">>
     /\ hasAt(s, a, ",")
     /\ hasAt(s, b, ",")
     /\ hasAt(s, c, ")")
     /\ c = Len(s)

rgbaPattern(color) ==
  LET s == toLowerCase(color)
      a == afterComponent(s, 6, Digits)
      b == afterComponent(s, a + 1, Digits)
      c == afterComponent(s, b + 1, Digits)
      d == afterComponent(s, c + 1, Digits \cup {"."})
  IN /\ Len(s) >= 5
     /\ SubSeq(s, 1, 5) = <<"r", "g", "b", "a", "(">>
     /\ hasAt(s, a, ",")
     /\ hasAt(s, b, ",")
     /\ hasAt(s, c, ",")
     /\ hasAt(s, d, ")")
     /\ d = Len(s)

namedColors ==
  { <<"b", "l", "a", "c", "k">>,
    <<"w", "h", "i", "t", "e">>,
    <<"r", "e", "d">>,
    <<"g", "r", "e", "e", "n">>,
    <<"b", "l", "u", "e">>,
    <<"y", "e", "l", "l", "o", "w">>,
    <<"p", "u", "r", "p", "l", "e">>,
    <<"o", "r", "a", "n", "g", "e">>,
    <<"g", "r", "a", "y">>,
    <<"g", "r", "e", "y">>,
    <<"c", "y", "a", "n">>,
    <<"m", "a", "g", "e", "n", "t", "a">>,
    <<"p", "i", "n", "k">>,
    <<"b", "r", "o", "w", "n">>,
    <<"t", "r", "a", "n", "s", "p", "a", "r", "e", "n", "t">> }

validateColor(color) ==
  IF color = UndefStr THEN FALSE
  ELSE IF hexPattern(color) THEN TRUE
  ELSE IF rgbPattern(color) \/ rgbaPattern(color) THEN TRUE
  ELSE toLowerCase(color) \in namedColors

safeFonts ==
  { <<"A", "r", "i", "a", "l">>,
    <<"H", "e", "l", "v", "e", "t", "i", "c", "a">>,
    <<"T", "i", "m", "e", "s", " ", "N", "e", "w", " ", "R", "o", "m", "a", "n">>,
    <<"T", "i", "m", "e", "s">>,
    <<"C", "o", "u", "r", "i", "e", "r", " ", "N", "e", "w">>,
    <<"C", "o", "u", "r", "i", "e", "r">>,
    <<"V", "e", "r", "d", "a", "n", "a">>,
    <<"G", "e", "o", "r", "g", "i", "a">>,
    <<"P", "a", "l", "a", "t", "i", "n", "o">>,
    <<"G", "a", "r", "a", "m", "o", "n", "d">>,
    <<"B", "o", "o", "k", "m", "a", "n">>,
    <<"T", "a", "h", "o", "m", "a">>,
    <<"T", "r", "e", "b", "u", "c", "h", "e", "t", " ", "M", "S">>,
    <<"A", "r", "i", "a", "l", " ", "B", "l", "a", "c", "k">>,
    <<"I", "m", "p", "a", "c", "t">>,
    <<"C", "o", "m", "i", "c", " ", "S", "a", "n", "s", " ", "M", "S">> }

validateFontFamily(fontFamily) ==
  IF fontFamily = UndefStr THEN FALSE
  ELSE LET normalizedFont == trim(removeChars(fontFamily, {"'", "\""}))
       IN \E font \in safeFonts : toLowerCase(normalizedFont) = toLowerCase(font)

validateNumberRange(value, min, max) ==
  IF value = NotANumber THEN FALSE
  ELSE value >= min /\ value <= max

(***************************************************************************)
(* Watermark configurations.  A config has every field; a field the        *)
(* JavaScript object lacks holds the undefined value of its type.          *)
(***************************************************************************)
Config(type, text, position, opacity, color, fontSize, fontFamily, rotation, imageData) ==
  [type |-> type, text |-> text, position |-> position, opacity |-> opacity,
   color |-> color, fontSize |-> fontSize, fontFamily |-> fontFamily,
   rotation |-> rotation, imageData |-> imageData]

\* the JavaScript null: what validateWatermarkConfig returns for a rejected config
NullConfig ==
  Config("null", UndefStr, Undef, NotANumber, UndefStr, NotANumber, UndefStr,
         NotANumber, Undef)

Red == <<"#", "F", "F", "0", "0", "0", "0">>
Arial == <<"A", "r", "i", "a", "l">>
CONFIDENTIAL == <<"C", "O", "N", "F", "I", "D", "E", "N", "T", "I", "A", "L">>

\* watermark.js: DEFAULT_TEXT_WATERMARK
DEFAULT_TEXT_WATERMARK ==
  Config("text", CONFIDENTIAL, "center", 5, Red, 48, Arial, -45, Undef)

validPositions == {"center", "topLeft", "topRight", "bottomLeft", "bottomRight"}

(***************************************************************************)
(* security.js: validateWatermarkConfig.                                   *)
(***************************************************************************)
validateWatermarkConfig_WrongOpacityDefault(config) ==
  IF config = NullConfig THEN NullConfig
  ELSE IF config.type = "text" /\ config.text # UndefStr THEN
    Config("text",
           sanitizeString(config.text),
           IF config.position \in validPositions THEN config.position ELSE "center",
           IF validateNumberRange(config.opacity, 0, 10) THEN config.opacity ELSE 10,
           IF validateColor(config.color) THEN config.color ELSE Red,
           IF validateNumberRange(config.fontSize, 8, 72) THEN config.fontSize ELSE 48,
           IF validateFontFamily(config.fontFamily) THEN config.fontFamily ELSE Arial,
           IF validateNumberRange(config.rotation, -180, 180) THEN config.rotation ELSE 0,
           Undef)
  ELSE IF config.type = "image" THEN
    Config("image", UndefStr, Undef, NotANumber, UndefStr, NotANumber, UndefStr,
           NotANumber, Undef)
  ELSE NullConfig

validateWatermarkConfig(config) ==
  IF config = NullConfig THEN NullConfig
  ELSE IF config.type = "text" /\ config.text # UndefStr THEN
    Config("text",
           sanitizeString(config.text),
           IF config.position \in validPositions THEN config.position ELSE "center",
           IF validateNumberRange(config.opacity, 0, 10) THEN config.opacity ELSE 5,
           IF validateColor(config.color) THEN config.color ELSE Red,
           IF validateNumberRange(config.fontSize, 8, 72) THEN config.fontSize ELSE 48,
           IF validateFontFamily(config.fontFamily) THEN config.fontFamily ELSE Arial,
           IF validateNumberRange(config.rotation, -180, 180) THEN config.rotation ELSE 0,
           Undef)
  ELSE IF config.type = "image" THEN
    Config("image", UndefStr, Undef, NotANumber, UndefStr, NotANumber, UndefStr,
           NotANumber, Undef)
  ELSE NullConfig

(***************************************************************************)
(* State.                                                                  *)
(*   pc            where each CaptureRequest is: every value other than    *)
(*                 idle, done and failed is an await of the code           *)
(*   req           the trigger that started the request (message or click) *)
(*   pdfOptions    the options generatePdfFromTab works with               *)
(*   imageInfo     what processImageInContentScript resolved with          *)
(*   trace         the collaborator calls of the request, in call order    *)
(*   events        the pdfProgress events the request emitted              *)
(*   downloads     the documents handed to chrome.downloads.download       *)
(*   result        what the caller of the request got back                 *)
(*   lastWatermark the chrome.storage.local slot 'lastWatermark'           *)
(*   premium       the answer of isFeatureAvailable(IMAGE_WATERMARK)       *)
(*   popupWaiting  the request whose loading overlay covers the popup      *)
(*   vIn           the config a caller passes to the watermark library     *)
(*   vOut          what validateWatermarkConfig returned for vIn            *)
(*   canvas        the canvas applyWatermarkToCanvas draws vIn on           *)
(*   page          the page side of processImage: scroll capture and plan  *)
(*   response      the answer each request got to its processImage message *)
(*   document      the jsPDF document a request built, as its run left it  *)
(*   prep          the content script's preparePage run on the page        *)
(*   templates     the stored template list and the template operations    *)
(*   license       the license manager, the stored licenseInfo, the date   *)
(*   analytics     the Analytics instance and the stored analyticsSettings *)
(***************************************************************************)
VARIABLES pc, req, pdfOptions, imageInfo, trace, events, downloads, result,
          lastWatermark, premium, popupWaiting, vIn, vOut, canvas, page,
          response, document, prep, templates, license, analytics

vars == <<pc, req, pdfOptions, imageInfo, trace, events, downloads, result,
          lastWatermark, premium, popupWaiting, vIn, vOut, canvas, page, response, document,
          prep, templates, license, analytics>>

pipelineVars == <<pc, req, pdfOptions, imageInfo, trace, events, downloads, result,
                  lastWatermark, premium, popupWaiting>>

\* the state of the components the capture pipeline does not touch
sideVars == <<prep, templates, license, analytics>>

Request(entry, useWatermark, useLastWatermark, watermarkConfig, pageLayout, captureFullPage, scale) ==
  [entry |-> entry, useWatermark |-> useWatermark,
   useLastWatermark |-> useLastWatermark, watermarkConfig |-> watermarkConfig,
   pageLayout |-> pageLayout, captureFullPage |-> captureFullPage, scale |-> scale]

NoRequest == Request("none", FALSE, FALSE, NullConfig, Undef, Undef, NotANumber)

NoOptions ==
  [useWatermark |-> FALSE, watermarkConfig |-> NullConfig, pageLayout |-> Undef,
   captureFullPage |-> Undef, landscape |-> FALSE, scale |-> NotANumber]

NoImage ==
  [imageData |-> Undef, width |-> 0, height |-> 0, orientation |-> Undef,
   source |-> Undef]

NoResult == [success |-> FALSE, error |-> Undef]

\* the graphics state of a fresh jsPDF document
InitialGState ==
  [opacity |-> 10, font |-> <<"h", "e", "l", "v", "e", "t", "i", "c", "a">>,
   fontSize |-> 16, textColor |-> <<"#", "0", "0", "0", "0", "0", "0">>]

\* no document built yet
NoPdf ==
  [orientation |-> Undef, image |-> Undef, fitted |-> FALSE, watermarks |-> <<>>,
   numberOfPages |-> 0, gstate |-> InitialGState, stack |-> <<>>]

\* no answer to processImage, or an answer without success
NoResponse ==
  [success |-> FALSE, imageData |-> Undef, width |-> 0, height |-> 0,
   orientation |-> Undef, isPaginated |-> FALSE, pages |-> 0]

Call(stage, ev) == [stage |-> stage, ev |-> ev]

(***************************************************************************)
(* The triggers the model draws from.  The cosmetic fields of              *)
(* OutOfDomainText are the ones of the invalid config of the validation    *)
(* test; Typeless is that config without type and text.                    *)
(***************************************************************************)
OutOfDomainText ==
  Config("text", <<"a", "&">>, "invalid", 20, <<"n", "o", "t", "a", "c", "o", "l", "o", "r">>,
         100, <<"U", "n", "k", "n", "o", "w", "n", "F", "o", "n", "t">>, 200, Undef)

InDomainText ==
  Config("text", <<"a">>, "topLeft", 10, <<"R", "e", "d">>, 8, <<"'", "A", "r", "i", "a", "l", "'">>,
         -180, Undef)

ImageConfig ==
  Config("image", UndefStr, "topRight", 5, UndefStr, NotANumber, UndefStr, 0, "dataurl")

Typeless ==
  Config(Undef, UndefStr, "invalid", 20, <<"n", "o", "t", "a", "c", "o", "l", "o", "r">>,
         NotANumber, UndefStr, 200, Undef)

PopupMenu ==
  { Request("popup", TRUE, FALSE, OutOfDomainText, "landscape", Undef, NotANumber),
    Request("popup", TRUE, FALSE, ImageConfig, "portrait", "true", NotANumber),
    Request("popup", TRUE, FALSE, Typeless, "auto", "true", NotANumber),
    Request("popup", TRUE, TRUE, NullConfig, "auto", "false", NotANumber),
    Request("popup", FALSE, FALSE, NullConfig, "auto", "true", 30) }

\* the stitched images a page-side processImage answer may describe: width,
\* height and the effective page height for that width
ResponseDimensions ==
  { [width |-> 1024, height |-> 3000, pageHeight |-> 1325],
    [width |-> 1600, height |-> 900, pageHeight |-> 2070] }

InFlight ==
  {"wait_storage", "wait_tab", "wait_prepare", "prepare_unanswered", "wait_capture",
   "wait_process", "process_unanswered", "wait_download"}

\* vOut before any call: value is what validateWatermarkConfig returned for
\* vIn, again what it returned for that value when it was read back
NotCalled ==
  [called |-> FALSE, value |-> NullConfig, reread |-> FALSE, again |-> NullConfig]

\* the drawing state of a fresh 2d context
InitialContext ==
  [globalAlpha |-> 10, fontSize |-> 10,
   fontFamily |-> <<"s", "a", "n", "s", "-", "s", "e", "r", "i", "f">>,
   fillStyle |-> <<"#", "0", "0", "0", "0", "0", "0">>,
   textAlign |-> "start", textBaseline |-> "alphabetic",
   translate |-> [x |-> 0, y |-> 0], rotate |-> [num |-> 0, den |-> 1]]

\* a canvas nothing was drawn on: its size, the drawing state of its context
\* and the stack of saved states
NewCanvas(width, height) ==
  [called |-> FALSE, width |-> width, height |-> height, state |-> InitialContext,
   stack |-> <<>>, drawn |-> <<>>, error |-> Undef]

BlankCanvas == NewCanvas(800, 600)

\* the content script before a preparePage message arrives
NoPrep ==
  [phase |-> "idle", fault |-> "none", ran |-> <<>>, answer |-> Undef, images |-> <<>>,
   loadedImages |-> 0, settled |-> FALSE, elapsed |-> FALSE]

\* the template operations that may overlap
MaxOps == 2

Ops == 1..MaxOps

\* a template operation that was not called
IdleOp == [kind |-> "none", arg |-> 0, phase |-> "idle", pending |-> <<>>, ok |-> FALSE]

\* no template stored, no operation called
NoTemplates == [stored |-> <<>>, unlimited |-> FALSE, ops |-> [o \in Ops |-> IdleOp]]

\* the page side before a processImage message arrives
\* license-manager.js: the premium features, the stored licenseInfo and a
\* LicenseManager as its constructor leaves it.  Dates are whole days;
\* NoDate is a null expiryDate.
PremiumFeature ==
  {"image_watermark", "unlimited_templates", "advanced_styling",
   "batch_processing", "cloud_storage"}

NoDate == 0

NoKey == "null"

NoLicenseInfo == [type |-> "null", key |-> NoKey, expiryDate |-> NoDate]

NoLicense ==
  [licenseType |-> "free", licenseKey |-> NoKey, expiryDate |-> NoDate,
   initialized |-> FALSE, loading |-> FALSE,
   premiumFeatures |-> [f \in PremiumFeature |-> FALSE],
   stored |-> NoLicenseInfo, now |-> 1, trialUntil |-> NoDate]

\* An Analytics instance as its constructor leaves it (part_013), with
\* analyticsSettings.enabled as stored (true when nothing is stored).
NoAnalytics ==
  [enabled |-> TRUE, initialized |-> FALSE, events |-> <<>>, eventQueue |-> <<>>,
   reading |-> FALSE, settings |-> TRUE, stored |-> TRUE, calls |-> 0]

NoPage ==
  [phase |-> "idle", pageLayout |-> Undef, captureFullPage |-> FALSE,
   width |-> 0, extent |-> 0, viewport |-> 0, pageHeight |-> 0,
   offset |-> 0, tiles |-> <<>>, response |-> NoImage, slices |-> <<>>]

(***************************************************************************)
(* Initial state: no request has arrived, the storage slot is empty.       *)
(***************************************************************************)
InitPipeline ==
  /\ pc = [r \in Reqs |-> "idle"]
  /\ req = [r \in Reqs |-> NoRequest]
  /\ pdfOptions = [r \in Reqs |-> NoOptions]
  /\ imageInfo = [r \in Reqs |-> NoImage]
  /\ trace = [r \in Reqs |-> <<>>]
  /\ events = [r \in Reqs |-> <<>>]
  /\ downloads = [r \in Reqs |-> <<>>]
  /\ result = [r \in Reqs |-> NoResult]
  /\ lastWatermark = NullConfig
  /\ popupWaiting = 0
  /\ response = [r \in Reqs |-> NoResponse]
  /\ document = [r \in Reqs |-> NoPdf]

\* license-manager.js: a fresh LicenseManager has no premium feature
Init ==
  /\ InitPipeline
  /\ analytics = NoAnalytics
  /\ license = NoLicense
  /\ templates = NoTemplates
  /\ prep = NoPrep
  /\ premium = FALSE
  /\ vIn = NullConfig
  /\ vOut = NotCalled
  /\ canvas = BlankCanvas
  /\ page = NoPage

\* request identifiers are handed out in arrival order
ArrivesNext(r) == pc[r] = "idle" /\ \A q \in Reqs : q < r => pc[q] # "idle"

(***************************************************************************)
(* background.js: handleGeneratePDF, the options it extracts (lines        *)
(* 1568-1589 of the bundle).                                               *)
(***************************************************************************)
extractPdfOptions(options) ==
  [useWatermark |-> FALSE,
   watermarkConfig |-> NullConfig,
   pageLayout |-> IF options.pageLayout = Undef THEN "auto" ELSE options.pageLayout,
   captureFullPage |-> IF options.captureFullPage = "false" THEN "false" ELSE "true",
   landscape |-> FALSE,
   scale |-> IF options.scale = NotANumber THEN 10 ELSE options.scale]

withWatermark(o, config) ==
  [o EXCEPT !.useWatermark = TRUE, !.watermarkConfig = config]

\* pdf-generator.js: { ...DEFAULT_PDF_OPTIONS, ...options } for a call without options
DEFAULT_PDF_OPTIONS ==
  [useWatermark |-> FALSE, watermarkConfig |-> NullConfig, pageLayout |-> Undef,
   captureFullPage |-> Undef, landscape |-> FALSE, scale |-> 10]

\* pdf-generator.js: validatePdfOptions, TRUE iff it does not throw
validatePdfOptions(o) == ~(o.scale # NotANumber /\ (o.scale <= 0 \/ o.scale > 20))

(***************************************************************************)
(* pdf-generator.js: generatePdfFromTab, the catch block.  The Error       *)
(* progress event is sent and the error is rethrown to the caller, which   *)
(* answers { success: false, error } (handleGeneratePDF) or hands it to    *)
(* the error handler (context menu).  `waiting' is the request the popup   *)
(* overlay waits for.                                                      *)
(***************************************************************************)
Throw_Silent(r, reason, waiting) ==
  /\ events' = events
  /\ result' = [result EXCEPT ![r] = [success |-> FALSE, error |-> reason]]
  /\ pc' = [pc EXCEPT ![r] = "failed"]
  /\ popupWaiting' = IF waiting = r THEN 0 ELSE waiting

Throw(r, reason, waiting) ==
  /\ events' = [events EXCEPT ![r] =
                  Append(@, [progress |-> "Error", reason |-> reason, complete |-> TRUE])]
  /\ result' = [result EXCEPT ![r] = [success |-> FALSE, error |-> reason]]
  /\ pc' = [pc EXCEPT ![r] = "failed"]
  /\ popupWaiting' = IF waiting = r THEN 0 ELSE waiting

(***************************************************************************)
(* pdf-generator.js: generatePdfFromTab up to its first await: merge and   *)
(* validate the options, then ask for the tab (no caller passes a          *)
(* filename).                                                              *)
(***************************************************************************)
generatePdfFromTab(r, o, waiting) ==
  /\ pdfOptions' = [pdfOptions EXCEPT ![r] = o]
  /\ IF validatePdfOptions(o)
     THEN /\ pc' = [pc EXCEPT ![r] = "wait_tab"]
          /\ popupWaiting' = waiting
          /\ UNCHANGED <<events, result>>
     ELSE Throw(r, "Scale must be a number between 0 and 2", waiting)

(***************************************************************************)
(* popup.js savePDF / background.js handleGeneratePDF: a generatePDF       *)
(* message arrives.  The popup can send it only while its loading overlay  *)
(* is hidden.                                                              *)
(***************************************************************************)
StartPopup(r, m) ==
  /\ ArrivesNext(r)
  /\ popupWaiting = 0
  /\ m \in PopupMenu
  /\ req' = [req EXCEPT ![r] = m]
  /\ IF m.useWatermark /\ m.useLastWatermark
     THEN /\ pc' = [pc EXCEPT ![r] = "wait_storage"]
          /\ pdfOptions' = [pdfOptions EXCEPT ![r] = extractPdfOptions(m)]
          /\ popupWaiting' = r
          /\ UNCHANGED <<lastWatermark, events, result>>
     ELSE IF m.useWatermark /\ m.watermarkConfig # NullConfig
     THEN LET validatedConfig == validateWatermarkConfig(m.watermarkConfig) IN
          IF validatedConfig = NullConfig
          THEN /\ pc' = [pc EXCEPT ![r] = "failed"]
               /\ result' = [result EXCEPT ![r] =
                    [success |-> FALSE, error |-> "Invalid watermark configuration"]]
               /\ pdfOptions' = [pdfOptions EXCEPT ![r] = extractPdfOptions(m)]
               /\ UNCHANGED <<lastWatermark, events, popupWaiting>>
          ELSE /\ lastWatermark' = validatedConfig
               /\ generatePdfFromTab(r, withWatermark(extractPdfOptions(m), validatedConfig), r)
     ELSE /\ generatePdfFromTab(r, extractPdfOptions(m), r)
          /\ UNCHANGED lastWatermark
  /\ UNCHANGED <<imageInfo, trace, downloads, premium, vIn, vOut, canvas, page, response, document, sideVars>>

(***************************************************************************)
(* background.js: chrome.contextMenus.onClicked.                           *)
(***************************************************************************)
StartContextPlain(r) ==
  /\ ArrivesNext(r)
  /\ req' = [req EXCEPT ![r] =
       Request("pdfbuddy-save-plain", FALSE, FALSE, NullConfig, Undef, Undef, NotANumber)]
  /\ generatePdfFromTab(r, DEFAULT_PDF_OPTIONS, popupWaiting)
  /\ UNCHANGED <<imageInfo, trace, downloads, lastWatermark, premium, vIn, vOut, canvas, page, response, document, sideVars>>

StartContextLast(r) ==
  /\ ArrivesNext(r)
  /\ req' = [req EXCEPT ![r] =
       Request("pdfbuddy-save-last", TRUE, TRUE, NullConfig, Undef, Undef, NotANumber)]
  /\ pc' = [pc EXCEPT ![r] = "wait_storage"]
  /\ pdfOptions' = [pdfOptions EXCEPT ![r] = DEFAULT_PDF_OPTIONS]
  /\ UNCHANGED <<imageInfo, trace, events, downloads, result, lastWatermark, premium,
                 popupWaiting, vIn, vOut, canvas, page, response, document, sideVars>>

(***************************************************************************)
(* chrome.storage.local.get('lastWatermark') answers: the stored config is *)
(* validated again and used, the default watermark is used when the slot   *)
(* is empty.                                                               *)
(***************************************************************************)
StorageResolved(r) ==
  /\ pc[r] = "wait_storage"
  /\ LET validatedConfig == validateWatermarkConfig(lastWatermark)
         o == IF lastWatermark = NullConfig
              THEN withWatermark(pdfOptions[r], DEFAULT_TEXT_WATERMARK)
              ELSE IF validatedConfig # NullConfig
              THEN withWatermark(pdfOptions[r], validatedConfig)
              ELSE pdfOptions[r]
     IN generatePdfFromTab(r, o, popupWaiting)
  /\ UNCHANGED <<req, imageInfo, trace, downloads, lastWatermark, premium, vIn, vOut, canvas, page, response, document, sideVars>>

(***************************************************************************)
(* The Layout Planner of the page side (sections 3 and 4.4 of the          *)
(* specification; the content script that implements it is not among the   *)
(* repository's sources).                                                  *)
(***************************************************************************)
Layouts == {"auto", "portrait", "landscape"}

CeilDiv(a, b) == (a + b - 1) \div b

Min(a, b) == IF a <= b THEN a ELSE b

\* section 3: the orientation a StitchedImage derives from its dimensions
derivedOrientation(width, height) == IF width > height THEN "landscape" ELSE "portrait"

\* section 4.4: the orientation of the document
planOrientation(pageLayout, width, height) ==
  IF pageLayout = "auto" THEN derivedOrientation(width, height) ELSE pageLayout

\* section 4.4: the PageSlices of an image of height H for page height P
planSlices_FloorCount(H, P) ==
  [i \in 1..(H \div P) |->
     [index |-> i - 1, offset |-> (i - 1) * P, height |-> Min(P, H - (i - 1) * P)]]

planSlices(H, P) ==
  [i \in 1..CeilDiv(H, P) |->
     [index |-> i - 1, offset |-> (i - 1) * P, height |-> Min(P, H - (i - 1) * P)]]

(***************************************************************************)
(* pdf-generator.js: the options of the processImage message and the       *)
(* fallback of processImageInContentScript.  The options object has no     *)
(* orientation field, so the fallback reads an undefined value.            *)
(***************************************************************************)
processImageOptions(o) ==
  [pageLayout |-> IF o.pageLayout # Undef THEN o.pageLayout
                  ELSE IF o.landscape THEN "landscape" ELSE "portrait",
   captureFullPage |-> (o.captureFullPage = "true"),
   orientation |-> Undef]

fallbackImageInfo(imageData, options) ==
  [imageData |-> imageData, width |-> 0, height |-> 0,
   orientation |-> IF options.orientation # Undef THEN options.orientation ELSE "portrait",
   source |-> "fallback"]

\* the answer of a page side that follows the Layout Planner
pageResponse(dimensions, options) ==
  [success |-> TRUE, imageData |-> "processed",
   width |-> dimensions.width, height |-> dimensions.height,
   orientation |-> planOrientation(options.pageLayout, dimensions.width, dimensions.height),
   isPaginated |-> Len(planSlices(dimensions.height, dimensions.pageHeight)) > 1,
   pages |-> Len(planSlices(dimensions.height, dimensions.pageHeight))]

\* processImageInContentScript resolves with imageData and dimensions only:
\* isPaginated and pages of the answer are not passed on
processedImageInfo(dimensions) ==
  [imageData |-> "processed", width |-> dimensions.width, height |-> dimensions.height,
   orientation |-> dimensions.orientation, source |-> "page"]

(***************************************************************************)
(* pdf-lib.js: createPdfFromImage, addTextWatermarkToPdf and               *)
(* addImageWatermarkToPdf.  A document is its orientation, the image it    *)
(* embeds, whether the image was fitted to the page, the watermarks drawn  *)
(* on its page, and its number of pages: createPdf opens one page and no   *)
(* call of the single-document branch adds another.                        *)
(***************************************************************************)
createPdfFromImage(imageData, dimensions, orientation) ==
  [orientation |-> IF dimensions.orientation # Undef THEN dimensions.orientation
                   ELSE IF orientation # Undef THEN orientation ELSE "portrait",
   image |-> imageData,
   fitted |-> (dimensions.width # 0 /\ dimensions.height # 0),
   watermarks |-> <<>>,
   numberOfPages |-> 1,
   gstate |-> InitialGState,
   stack |-> <<>>]

\* jsPDF: saveGraphicsState pushes the current graphics state,
\* restoreGraphicsState pops it back
saveGraphicsState(pdf) == [pdf EXCEPT !.stack = Append(@, pdf.gstate)]

restoreGraphicsState(pdf) ==
  IF pdf.stack = <<>> THEN pdf
  ELSE [pdf EXCEPT !.gstate = pdf.stack[Len(pdf.stack)],
                   !.stack = SubSeq(@, 1, Len(pdf.stack) - 1)]

\* setGState, setFont, setFontSize and setTextColor of addTextWatermarkToPdf
setTextWatermarkState(pdf, watermarkConfig) ==
  [pdf EXCEPT !.gstate =
     [opacity |-> watermarkConfig.opacity,
      font |-> IF watermarkConfig.fontFamily \in {UndefStr, <<>>}
               THEN <<"h", "e", "l", "v", "e", "t", "i", "c", "a">>
               ELSE watermarkConfig.fontFamily,
      fontSize |-> IF watermarkConfig.fontSize \in {NotANumber, 0} THEN 48
                   ELSE watermarkConfig.fontSize,
      textColor |-> IF watermarkConfig.color \in {UndefStr, <<>>} THEN Red
                    ELSE watermarkConfig.color]]

addTextWatermarkToPdf_Twice(pdf, watermarkConfig) ==
  LET set == setTextWatermarkState(saveGraphicsState(pdf), watermarkConfig)
  IN restoreGraphicsState(
       [set EXCEPT !.watermarks = Append(Append(@, watermarkConfig), watermarkConfig)])

addTextWatermarkToPdf(pdf, watermarkConfig) ==
  LET set == setTextWatermarkState(saveGraphicsState(pdf), watermarkConfig)
  IN restoreGraphicsState([set EXCEPT !.watermarks = Append(@, watermarkConfig)])

\* the document a throwing pdf.text leaves: the catch block rethrows, and
\* restoreGraphicsState is reached on the success path only
addTextWatermarkToPdfThrown(pdf, watermarkConfig) ==
  setTextWatermarkState(saveGraphicsState(pdf), watermarkConfig)

imageWatermarkThrows(watermarkConfig) == watermarkConfig.imageData = Undef

addImageWatermarkToPdf(pdf, watermarkConfig) ==
  LET set == [saveGraphicsState(pdf) EXCEPT !.gstate.opacity = watermarkConfig.opacity]
  IN restoreGraphicsState([set EXCEPT !.watermarks = Append(@, watermarkConfig)])

\* the document a throw at watermarkConfig.imageData.match leaves
addImageWatermarkToPdfThrown(pdf, watermarkConfig) ==
  [saveGraphicsState(pdf) EXCEPT !.gstate.opacity = watermarkConfig.opacity]

(***************************************************************************)
(* chrome.tabs.get answers (or rejects: the tab is gone): the filename is  *)
(* generated and the preparePage message is sent.                          *)
(***************************************************************************)
TabResolved(r, ok) ==
  /\ pc[r] = "wait_tab"
  /\ IF ok
     THEN /\ pc' = [pc EXCEPT ![r] = "wait_prepare"]
          /\ trace' = [trace EXCEPT ![r] = Append(@, Call("preparePage", "start"))]
          /\ UNCHANGED <<events, result, popupWaiting>>
     ELSE /\ Throw(r, "No tab with id", popupWaiting)
          /\ UNCHANGED trace
  /\ UNCHANGED <<req, pdfOptions, imageInfo, downloads, lastWatermark, premium, vIn, vOut, canvas, page, response, document, sideVars>>

(***************************************************************************)
(* pdf-generator.js: preparePageForPdf, the sendMessage callback.  With    *)
(* lastError (no listener), with success = false and with success = true   *)
(* the promise resolves; generatePdfFromTab then captures the viewport.    *)
(***************************************************************************)
PageOutcomes == {"lastError", "failure", "success"}

PreparePageResponse(r, outcome) ==
  /\ pc[r] = "wait_prepare"
  /\ outcome \in PageOutcomes
  /\ pc' = [pc EXCEPT ![r] = "wait_capture"]
  /\ trace' = [trace EXCEPT ![r] =
       @ \o <<Call("preparePage", "ok"), Call("captureVisibleTab", "start")>>]
  /\ UNCHANGED <<req, pdfOptions, imageInfo, events, downloads, result, lastWatermark,
                 premium, popupWaiting, vIn, vOut, canvas, page, response, document, sideVars>>

(***************************************************************************)
(* The page keeps the message channel open and never calls sendResponse:   *)
(* content.js returns true from its listener and answers only when         *)
(* preparePage settles, which it never does when a step inside its then    *)
(* callback throws; the processImage handler is page-side code that the    *)
(* repository does not contain and may do the same.  The callback is then  *)
(* never invoked, and neither preparePageForPdf nor                        *)
(* processImageInContentScript arms a timer.                               *)
(***************************************************************************)
PageNeverAnswers(r) ==
  /\ pc[r] \in {"wait_prepare", "wait_process"}
  /\ pc' = [pc EXCEPT ![r] =
       IF pc[r] = "wait_prepare" THEN "prepare_unanswered" ELSE "process_unanswered"]
  /\ UNCHANGED <<req, pdfOptions, imageInfo, trace, events, downloads, result,
                 lastWatermark, premium, popupWaiting, vIn, vOut, canvas, page, response, document, sideVars>>

(***************************************************************************)
(* chrome.tabs.captureVisibleTab resolves (or rejects): the processImage   *)
(* message is sent with the captured image.                                *)
(***************************************************************************)
CaptureResolved(r, ok) ==
  /\ pc[r] = "wait_capture"
  /\ IF ok
     THEN /\ pc' = [pc EXCEPT ![r] = "wait_process"]
          /\ trace' = [trace EXCEPT ![r] =
               @ \o <<Call("captureVisibleTab", "ok"), Call("processImage", "start")>>]
          /\ UNCHANGED <<events, result, popupWaiting>>
     ELSE /\ Throw(r, "Failed to capture tab", popupWaiting)
          /\ trace' = [trace EXCEPT ![r] = Append(@, Call("captureVisibleTab", "error"))]
  /\ UNCHANGED <<req, pdfOptions, imageInfo, downloads, lastWatermark, premium, vIn, vOut, canvas, page, response, document, sideVars>>

(***************************************************************************)
(* pdf-generator.js: generatePdfFromTab between the processImage answer    *)
(* and the download call (one synchronous run): create the document, apply *)
(* the watermark if one is configured, serialize.  `fault' names the       *)
(* library call that throws in this run, if any.  The result is the calls  *)
(* made, the error thrown (Undef if none) and the document.                *)
(* processImageInContentScript resolves with imageData and dimensions      *)
(* only, so imageInfo.isPaginated is undefined and the single-document     *)
(* branch is the one that runs.                                            *)
(***************************************************************************)
Faults == {"none", "createPdfFromImage", "addTextWatermarkToPdf", "pdfToDataUrl"}

hasWatermark(o) == o.useWatermark /\ o.watermarkConfig # NullConfig

assemble_IgnoresWatermarkError(o, info, fault) ==
  LET created == createPdfFromImage(info.imageData, info, info.orientation)
      config == o.watermarkConfig
      failed == hasWatermark(o) /\
                  \/ config.type = "text" /\ fault = "addTextWatermarkToPdf"
                  \/ config.type = "image" /\ imageWatermarkThrows(config)
      watermarkCalls ==
        IF ~hasWatermark(o) THEN <<>>
        ELSE <<Call("watermark", "start"),
               Call("watermark", IF failed THEN "error" ELSE "ok")>>
  IN [calls |-> <<Call("createPdfFromImage", "start"),
                  Call("createPdfFromImage", "ok")>> \o watermarkCalls
                \o <<Call("pdfToDataUrl", "start"), Call("pdfToDataUrl", "ok")>>,
      error |-> Undef,
      pdf |-> IF hasWatermark(o) /\ ~failed /\ config.type = "text"
              THEN addTextWatermarkToPdf(created, config) ELSE created]

assemble_SerializesBeforeWatermark(o, info, fault) ==
  LET created == createPdfFromImage(info.imageData, info, info.orientation)
      config == o.watermarkConfig
      watermarkCalls ==
        IF ~hasWatermark(o) THEN <<>>
        ELSE <<Call("watermark", "start"), Call("watermark", "ok")>>
  IN [calls |-> <<Call("createPdfFromImage", "start"),
                  Call("createPdfFromImage", "ok"),
                  Call("pdfToDataUrl", "start"), Call("pdfToDataUrl", "ok")>>
                \o watermarkCalls,
      error |-> Undef,
      pdf |-> IF hasWatermark(o) THEN addTextWatermarkToPdf(created, config) ELSE created]

assemble(o, info, fault) ==
  LET created == createPdfFromImage(info.imageData, info, info.orientation)
      config == o.watermarkConfig
      marked == IF ~hasWatermark(o) THEN created
                ELSE IF config.type = "text" THEN addTextWatermarkToPdf(created, config)
                ELSE IF config.type = "image" THEN addImageWatermarkToPdf(created, config)
                ELSE created
      watermarkError ==
        IF ~hasWatermark(o) THEN Undef
        ELSE IF config.type = "text" /\ fault = "addTextWatermarkToPdf"
        THEN "Failed to add text watermark to PDF"
        ELSE IF config.type = "image" /\ imageWatermarkThrows(config)
        THEN "Failed to add image watermark to PDF"
        ELSE Undef
      watermarkCalls ==
        IF ~hasWatermark(o) THEN <<>>
        ELSE <<Call("watermark", "start"),
               Call("watermark", IF watermarkError = Undef THEN "ok" ELSE "error")>>
  IN IF fault = "createPdfFromImage"
     THEN [calls |-> <<Call("createPdfFromImage", "start"),
                       Call("createPdfFromImage", "error")>>,
           error |-> "Failed to create PDF from image", pdf |-> created]
     ELSE IF watermarkError # Undef
     THEN [calls |-> <<Call("createPdfFromImage", "start"),
                       Call("createPdfFromImage", "ok")>> \o watermarkCalls,
           error |-> watermarkError,
           pdf |-> IF config.type = "text" THEN addTextWatermarkToPdfThrown(created, config)
                   ELSE addImageWatermarkToPdfThrown(created, config)]
     ELSE IF fault = "pdfToDataUrl"
     THEN [calls |-> <<Call("createPdfFromImage", "start"),
                       Call("createPdfFromImage", "ok")>> \o watermarkCalls
                     \o <<Call("pdfToDataUrl", "start"), Call("pdfToDataUrl", "error")>>,
           error |-> "Failed to convert PDF to data URL", pdf |-> marked]
     ELSE [calls |-> <<Call("createPdfFromImage", "start"),
                       Call("createPdfFromImage", "ok")>> \o watermarkCalls
                     \o <<Call("pdfToDataUrl", "start"), Call("pdfToDataUrl", "ok")>>,
           error |-> Undef, pdf |-> marked]

(***************************************************************************)
(* pdf-generator.js: processImageInContentScript, the sendMessage          *)
(* callback, and the run of generatePdfFromTab that follows it up to the   *)
(* chrome.downloads.download call.                                         *)
(***************************************************************************)
ProcessImageResponse(r, outcome, dimensions, fault) ==
  /\ pc[r] = "wait_process"
  /\ outcome \in PageOutcomes
  /\ dimensions \in ResponseDimensions
  /\ fault \in Faults
  /\ fault = "addTextWatermarkToPdf" =>
       hasWatermark(pdfOptions[r]) /\ pdfOptions[r].watermarkConfig.type = "text"
  /\ LET answer == IF outcome = "success"
                   THEN pageResponse(dimensions, processImageOptions(pdfOptions[r]))
                   ELSE NoResponse
         info == IF outcome = "success" THEN processedImageInfo(answer)
                 ELSE fallbackImageInfo("screenshot", processImageOptions(pdfOptions[r]))
         run == assemble(pdfOptions[r], info, fault)
     IN /\ response' = [response EXCEPT ![r] = answer]
        /\ document' = [document EXCEPT ![r] = run.pdf]
        /\ imageInfo' = [imageInfo EXCEPT ![r] = info]
        /\ IF run.error = Undef
           THEN /\ trace' = [trace EXCEPT ![r] =
                     @ \o <<Call("processImage", "ok")>> \o run.calls
                       \o <<Call("download", "start")>>]
                /\ downloads' = [downloads EXCEPT ![r] = Append(@, run.pdf)]
                /\ pc' = [pc EXCEPT ![r] = "wait_download"]
                /\ UNCHANGED <<events, result, popupWaiting>>
           ELSE /\ trace' = [trace EXCEPT ![r] =
                     @ \o <<Call("processImage", "ok")>> \o run.calls]
                /\ Throw(r, run.error, popupWaiting)
                /\ UNCHANGED downloads
  /\ UNCHANGED <<req, pdfOptions, lastWatermark, premium, vIn, vOut, canvas, page, sideVars>>

(***************************************************************************)
(* pdf-generator.js: downloadPdf, the chrome.downloads.download callback,  *)
(* and the end of generatePdfFromTab: the completion event is sent and the *)
(* download id returned.                                                   *)
(***************************************************************************)
DownloadCallback(r, ok) ==
  /\ pc[r] = "wait_download"
  /\ IF ok
     THEN /\ trace' = [trace EXCEPT ![r] = Append(@, Call("download", "ok"))]
          /\ events' = [events EXCEPT ![r] =
               Append(@, [progress |-> "PDF generation complete!", reason |-> Undef,
                          complete |-> TRUE])]
          /\ result' = [result EXCEPT ![r] = [success |-> TRUE, error |-> Undef]]
          /\ pc' = [pc EXCEPT ![r] = "done"]
          /\ popupWaiting' = IF popupWaiting = r THEN 0 ELSE popupWaiting
     ELSE /\ trace' = [trace EXCEPT ![r] = Append(@, Call("download", "error"))]
          /\ Throw(r, "Download failed", popupWaiting)
  /\ UNCHANGED <<req, pdfOptions, imageInfo, downloads, lastWatermark, premium, vIn, vOut, canvas, page, response, document, sideVars>>

(***************************************************************************)
(* The user closes the popup: its document, and with it the loading        *)
(* overlay, is discarded; the next popup starts with the overlay hidden.   *)
(***************************************************************************)
ClosePopup ==
  /\ popupWaiting # 0
  /\ popupWaiting' = 0
  /\ UNCHANGED <<pc, req, pdfOptions, imageInfo, trace, events, downloads, result,
                 lastWatermark, premium, vIn, vOut, canvas, page, response, document, sideVars>>

Next ==
  \/ \E r \in Reqs, m \in PopupMenu : StartPopup(r, m)
  \/ \E r \in Reqs : StartContextPlain(r)
  \/ \E r \in Reqs : StartContextLast(r)
  \/ \E r \in Reqs : StorageResolved(r)
  \/ \E r \in Reqs, ok \in BOOLEAN : TabResolved(r, ok)
  \/ \E r \in Reqs, outcome \in PageOutcomes : PreparePageResponse(r, outcome)
  \/ \E r \in Reqs : PageNeverAnswers(r)
  \/ \E r \in Reqs, ok \in BOOLEAN : CaptureResolved(r, ok)
  \/ \E r \in Reqs, outcome \in PageOutcomes, dimensions \in ResponseDimensions,
        fault \in Faults : ProcessImageResponse(r, outcome, dimensions, fault)
  \/ \E r \in Reqs, ok \in BOOLEAN : DownloadCallback(r, ok)
  \/ ClosePopup

Spec == Init /\ [][Next]_vars

(***************************************************************************)
(* Fairness: a callback that is due is eventually delivered.  Nothing      *)
(* obliges the user to trigger a request or the page to answer.            *)
(***************************************************************************)
Callback(r) ==
  \/ StorageResolved(r)
  \/ \E ok \in BOOLEAN : TabResolved(r, ok)
  \/ \E outcome \in PageOutcomes : PreparePageResponse(r, outcome)
  \/ \E ok \in BOOLEAN : CaptureResolved(r, ok)
  \/ \E outcome \in PageOutcomes, dimensions \in ResponseDimensions, fault \in Faults :
       ProcessImageResponse(r, outcome, dimensions, fault)
  \/ \E ok \in BOOLEAN : DownloadCallback(r, ok)

FairSpec == Init /\ [][Next]_vars /\ \A r \in Reqs : WF_vars(Callback(r))

(***************************************************************************)
(* The watermark library called on its own: validateWatermarkConfig        *)
(* (security.js) and applyWatermarkToCanvas (watermark.js) applied to      *)
(* configs drawn from WatermarkInputs.                                     *)
(***************************************************************************)
MaxTextLen == 2

TextAlphabet == {"a", "&", "<"}

RECURSIVE TextsUpTo(_)
TextsUpTo(n) ==
  IF n = 0 THEN {<<>>}
  ELSE LET shorter == TextsUpTo(n - 1)
       IN shorter \cup {Append(t, c) : t \in {u \in shorter : Len(u) = n - 1},
                                        c \in TextAlphabet}

\* security-constants.js: VALIDATION_CONSTRAINTS.WATERMARK_TEXT
WATERMARK_TEXT_MIN_LENGTH == 1
WATERMARK_TEXT_MAX_LENGTH == 100

\* a text one character longer than WATERMARK_TEXT allows
LongText == [i \in 1..(WATERMARK_TEXT_MAX_LENGTH + 1) |-> "a"]

SampleTexts == TextsUpTo(MaxTextLen) \cup {UndefStr, LongText}

SamplePositions == {"center", "topLeft", "topRight", "bottomLeft", "bottomRight",
                    "invalid", Undef}
SampleOpacities == {-1, 0, 5, 10, 11, 20, NotANumber}
SampleFontSizes == {7, 8, 48, 72, 73, 100, NotANumber}
SampleRotations == {-181, -180, -45, 0, 180, 181, 200, NotANumber}
SampleColors ==
  { Red,
    <<"#", "f", "0", "0">>,
    <<"R", "e", "d">>,
    <<"r", "g", "b", "(", "1", ",", " ", "2", ",", "3", ")">>,
    <<"r", "g", "b", "a", "(", "1", ",", "2", ",", "3", ",", "0", ".", "5", ")">>,
    <<"n", "o", "t", "a", "c", "o", "l", "o", "r">>,
    <<"#", "G", "G", "0", "0", "0", "0">>,
    <<"#", "F", "F", "0", "0">>,
    <<"r", "g", "b", "(", "1", ",", "2", ")">>,
    UndefStr }
SampleFonts ==
  { Arial,
    <<"'", "A", "r", "i", "a", "l", "'">>,
    <<"a", "r", "i", "a", "l">>,
    <<" ", "T", "i", "m", "e", "s", " ", "N", "e", "w", " ", "R", "o", "m", "a", "n">>,
    <<"U", "n", "k", "n", "o", "w", "n", "F", "o", "n", "t">>,
    <<"A", "r", "i", "a", "l", "x">>,
    UndefStr }

\* every combination of an in-domain and an out-of-domain value per cosmetic field
CrossedInputs ==
  { Config(type, text, position, opacity, color, fontSize, fontFamily, rotation, imageData) :
      type \in {"text", "image", "unknown", Undef},
      text \in SampleTexts,
      position \in {"topLeft", "invalid"},
      opacity \in {10, 20},
      color \in {<<"R", "e", "d">>, <<"n", "o", "t", "a", "c", "o", "l", "o", "r">>},
      fontSize \in {8, 100},
      fontFamily \in {<<"'", "A", "r", "i", "a", "l", "'">>,
                      <<"U", "n", "k", "n", "o", "w", "n", "F", "o", "n", "t">>},
      rotation \in {-180, 200},
      imageData \in {Undef} }

\* every sample value of one field, the other fields in their domains
SweptInputs ==
     { [InDomainText EXCEPT !.position = v] : v \in SamplePositions }
  \cup { [InDomainText EXCEPT !.opacity = v] : v \in SampleOpacities }
  \cup { [InDomainText EXCEPT !.color = v] : v \in SampleColors }
  \cup { [InDomainText EXCEPT !.fontSize = v] : v \in SampleFontSizes }
  \cup { [InDomainText EXCEPT !.fontFamily = v] : v \in SampleFonts }
  \cup { [InDomainText EXCEPT !.rotation = v] : v \in SampleRotations }

WatermarkInputs ==
  CrossedInputs \cup SweptInputs
    \cup {NullConfig, Typeless, ImageConfig, OutOfDomainText, DEFAULT_TEXT_WATERMARK}

SurfaceSizes == { [width |-> 800, height |-> 600], [width |-> 600, height |-> 800] }

calculatePosition_SwappedCorners(width, height, position) ==
  CASE position = "center" -> [x |-> width \div 2, y |-> height \div 2]
    [] position = "topLeft" -> [x |-> (width * 1) \div 10, y |-> (height * 1) \div 10]
    [] position = "topRight" -> [x |-> (width * 1) \div 10, y |-> (height * 9) \div 10]
    [] position = "bottomLeft" -> [x |-> (width * 9) \div 10, y |-> (height * 1) \div 10]
    [] position = "bottomRight" -> [x |-> (width * 9) \div 10, y |-> (height * 9) \div 10]
    [] OTHER -> [x |-> width \div 2, y |-> height \div 2]

\* watermark.js: calculatePosition; 0.1 and 0.9 of a length are its tenths
calculatePosition(width, height, position) ==
  CASE position = "center" -> [x |-> width \div 2, y |-> height \div 2]
    [] position = "topLeft" -> [x |-> (width * 1) \div 10, y |-> (height * 1) \div 10]
    [] position = "topRight" -> [x |-> (width * 9) \div 10, y |-> (height * 1) \div 10]
    [] position = "bottomLeft" -> [x |-> (width * 1) \div 10, y |-> (height * 9) \div 10]
    [] position = "bottomRight" -> [x |-> (width * 9) \div 10, y |-> (height * 9) \div 10]
    [] OTHER -> [x |-> width \div 2, y |-> height \div 2]

Abs(n) == IF n < 0 THEN -n ELSE n

RECURSIVE GCD(_, _)
GCD(a, b) == IF b = 0 THEN a ELSE GCD(b, a % b)

\* (rotation * Math.PI) / 180: the angle in radians as the fraction num/den
\* of pi in lowest terms; den = 0 stands for NaN
toRadians(rotation) ==
  IF rotation = NotANumber THEN [num |-> 0, den |-> 0]
  ELSE LET g == GCD(Abs(rotation), 180)
       IN [num |-> rotation \div g, den |-> 180 \div g]

\* ctx.save() and ctx.restore()
save(ctx) == [ctx EXCEPT !.stack = Append(@, ctx.state)]

restore(ctx) ==
  IF ctx.stack = <<>> THEN ctx
  ELSE [ctx EXCEPT !.state = ctx.stack[Len(ctx.stack)],
                   !.stack = SubSeq(@, 1, Len(ctx.stack) - 1)]

(***************************************************************************)
(* watermark.js: applyTextWatermark.  The state is saved, alpha, font,     *)
(* fill style, alignment and baseline are set, the origin is moved to the  *)
(* anchor and rotated, the text is filled at the origin, and the state is  *)
(* restored.  A 2d context ignores an alpha outside 0..1 and a rotation    *)
(* that is not a finite number.  What was filled is recorded with the      *)
(* state it was filled under.                                              *)
(***************************************************************************)
applyTextWatermark(ctx, width, height, config) ==
  LET position == calculatePosition(width, height, config.position)
      angle == toRadians(config.rotation)
      set == [save(ctx) EXCEPT
                !.state.globalAlpha =
                   IF config.opacity \in 0..10 THEN config.opacity ELSE @,
                !.state.fontSize = config.fontSize,
                !.state.fontFamily = config.fontFamily,
                !.state.fillStyle = config.color,
                !.state.textAlign = "center",
                !.state.textBaseline = "middle",
                !.state.translate = position,
                !.state.rotate = IF angle.den = 0 THEN @ ELSE angle]
  IN restore([set EXCEPT !.drawn = Append(@, [text |-> config.text, state |-> set.state])])

(***************************************************************************)
(* watermark.js: applyWatermarkToCanvas.  A config without type is         *)
(* validated first; a text watermark is drawn; an image watermark is       *)
(* refused without the entitlement and, with it, handed to                 *)
(* applyImageWatermark, a placeholder that draws nothing.                  *)
(***************************************************************************)
applyWatermarkToCanvas(cv, config, featureAvailable) ==
  LET watermarkConfig == IF config = NullConfig \/ config.type = Undef
                         THEN validateWatermarkConfig(config) ELSE config
      called == [cv EXCEPT !.called = TRUE]
  IN IF watermarkConfig = NullConfig
     THEN [called EXCEPT !.error = "Invalid watermark configuration"]
     ELSE IF watermarkConfig.type = "text"
     THEN applyTextWatermark(called, cv.width, cv.height, watermarkConfig)
     ELSE IF watermarkConfig.type = "image"
     THEN IF ~featureAvailable
          THEN [called EXCEPT !.error = "Image watermarks are a premium feature"]
          ELSE called
     ELSE [called EXCEPT !.error = "Unknown watermark type"]

ValidateCall ==
  /\ ~vOut.called
  /\ vOut' = [vOut EXCEPT !.called = TRUE, !.value = validateWatermarkConfig(vIn)]
  /\ UNCHANGED <<pipelineVars, vIn, canvas, page, response, document, sideVars>>

(***************************************************************************)
(* background.js: a validated config that was stored (lastWatermark) is    *)
(* read back and passed through validateWatermarkConfig again before it    *)
(* is used.                                                                *)
(***************************************************************************)
RereadCall ==
  /\ vOut.called
  /\ ~vOut.reread
  /\ vOut.value # NullConfig
  /\ vOut' = [vOut EXCEPT !.reread = TRUE, !.again = validateWatermarkConfig(vOut.value)]
  /\ UNCHANGED <<pipelineVars, vIn, canvas, page, response, document, sideVars>>

CanvasCall ==
  /\ ~canvas.called
  /\ canvas' = applyWatermarkToCanvas(canvas, vIn, premium)
  /\ UNCHANGED <<pc, req, pdfOptions, imageInfo, trace, events, downloads, result,
                 lastWatermark, premium, popupWaiting, vIn, vOut, page, response, document, sideVars>>

InitWatermark ==
  /\ InitPipeline
  /\ analytics = NoAnalytics
  /\ license = NoLicense
  /\ templates = NoTemplates
  /\ prep = NoPrep
  /\ premium \in BOOLEAN
  /\ vIn \in WatermarkInputs
  /\ vOut = NotCalled
  /\ \E size \in SurfaceSizes : canvas = NewCanvas(size.width, size.height)
  /\ page = NoPage

NextWatermark == ValidateCall \/ RereadCall \/ CanvasCall

SpecWatermark == InitWatermark /\ [][NextWatermark]_vars

(***************************************************************************)
(* The page side of the processImage message: the Scroll Capturer and the  *)
(* Layout Planner.  The content script that answers processImage is not    *)
(* among the repository's sources (content.js handles preparePage only),   *)
(* so this part follows sections 4.3 and 4.4 of the specification.         *)
(* Lengths are in pixels; the image is `width' wide, the page `extent'     *)
(* tall, the window `viewport' tall, and `pageHeight' is the effective     *)
(* page height for that width.                                             *)
(***************************************************************************)
MaxExtent == 6
MaxViewport == 3
MaxWidth == 3
MaxPageHeight == 3

\* the answer of the page side for a stitched image of the given height
respond(pg, height) ==
  [pg EXCEPT !.phase = "responded",
             !.response = [imageData |-> "processed", width |-> pg.width,
                           height |-> height,
                           orientation |-> planOrientation(pg.pageLayout, pg.width, height),
                           source |-> "page"],
             !.slices = planSlices(height, pg.pageHeight)]

(***************************************************************************)
(* section 4.3: a processImage message arrives.  Without captureFullPage,  *)
(* or when the page fits one viewport, the visible tile is the image;      *)
(* otherwise the scroll loop starts at the top.                            *)
(***************************************************************************)
ProcessImageStart ==
  /\ page.phase = "idle"
  /\ page' = IF page.captureFullPage /\ page.extent > page.viewport
             THEN [page EXCEPT !.phase = "capturing", !.offset = 0]
             ELSE respond([page EXCEPT !.tiles = <<[offset |-> 0, height |-> page.viewport,
                                                    drawn |-> TRUE]>>],
                          page.viewport)
  /\ UNCHANGED <<pipelineVars, vIn, vOut, canvas, response, document, sideVars>>

(***************************************************************************)
(* section 4.3: one step of the scroll loop.  The tile captured at the     *)
(* current offset is drawn there, or skipped when its capture or load      *)
(* failed; the offset advances by one viewport height; at the bottom the   *)
(* image is planned and the answer sent.                                   *)
(***************************************************************************)
ScrollStep_AbortsOnFailure(ok) ==
  /\ page.phase = "capturing"
  /\ LET tile == [offset |-> page.offset,
                  height |-> Min(page.viewport, page.extent - page.offset),
                  drawn |-> ok]
         next == [page EXCEPT !.tiles = Append(@, tile),
                              !.offset = @ + page.viewport]
     IN page' = IF ~ok THEN [next EXCEPT !.phase = "failed"]
                ELSE IF next.offset >= page.extent THEN respond(next, page.extent)
                ELSE next
  /\ UNCHANGED <<pipelineVars, vIn, vOut, canvas, response, document, sideVars>>

ScrollStep_StopsBeforePartialTile(ok) ==
  /\ page.phase = "capturing"
  /\ LET tile == [offset |-> page.offset,
                  height |-> Min(page.viewport, page.extent - page.offset),
                  drawn |-> ok]
         next == [page EXCEPT !.tiles = Append(@, tile),
                              !.offset = @ + page.viewport]
     IN page' = IF next.offset + page.viewport > page.extent
                THEN respond(next, page.extent) ELSE next
  /\ UNCHANGED <<pipelineVars, vIn, vOut, canvas, response, document, sideVars>>

ScrollStep(ok) ==
  /\ page.phase = "capturing"
  /\ LET tile == [offset |-> page.offset,
                  height |-> Min(page.viewport, page.extent - page.offset),
                  drawn |-> ok]
         next == [page EXCEPT !.tiles = Append(@, tile),
                              !.offset = @ + page.viewport]
     IN page' = IF next.offset >= page.extent THEN respond(next, page.extent) ELSE next
  /\ UNCHANGED <<pipelineVars, vIn, vOut, canvas, response, document, sideVars>>

InitPage ==
  /\ InitPipeline
  /\ analytics = NoAnalytics
  /\ license = NoLicense
  /\ templates = NoTemplates
  /\ prep = NoPrep
  /\ premium = FALSE
  /\ vIn = NullConfig
  /\ vOut = NotCalled
  /\ canvas = BlankCanvas
  /\ \E pageLayout \in Layouts, captureFullPage \in BOOLEAN, width \in 1..MaxWidth,
        extent \in 1..MaxExtent, viewport \in 1..MaxViewport,
        pageHeight \in 1..MaxPageHeight :
       page = [NoPage EXCEPT !.pageLayout = pageLayout,
                             !.captureFullPage = captureFullPage,
                             !.width = width, !.extent = extent,
                             !.viewport = viewport, !.pageHeight = pageHeight]

NextPage == ProcessImageStart \/ \E ok \in BOOLEAN : ScrollStep(ok)

SpecPage == InitPage /\ [][NextPage]_vars

(***************************************************************************)
(* content.js: the preparePage message.  preparePage runs                  *)
(* storeOriginalStyles and applyPrintStyles, waits for ensureImagesLoaded, *)
(* runs expandCollapsedContent, waits 500 ms and resolves; the listener    *)
(* answers success: true when it resolves and success: false when it       *)
(* rejects.  `fault' names the step that throws in this run, if any.  An   *)
(* image is its src and data-src attributes (present or not), its loading  *)
(* attribute (lazy or not), whether it is complete, and whether            *)
(* ensureImagesLoaded listens for its load and error events.  An image     *)
(* without src is complete.                                                *)
(***************************************************************************)
MaxImages == 2

PrepareSteps ==
  <<"storeOriginalStyles", "applyPrintStyles", "ensureImagesLoaded", "expandCollapsedContent">>

PrepareFaults == {"none"} \cup {PrepareSteps[i] : i \in DOMAIN PrepareSteps}

Images ==
  { [src |-> src, dataSrc |-> dataSrc, lazy |-> lazy, complete |-> complete, listener |-> FALSE] :
      src \in BOOLEAN, dataSrc \in BOOLEAN, lazy \in BOOLEAN, complete \in BOOLEAN }

PageImages == { img \in Images : ~img.src => img.complete }

ImageLists == UNION { [1..n -> PageImages] : n \in 0..MaxImages }

loading(img) == img.src /\ ~img.complete

\* ensureImagesLoaded, the body of images.forEach for one image: a complete
\* image is counted, any other gets the two listeners; a lazy image with
\* data-src and no src is given its src, which starts its load
checkImage(img) ==
  LET listened == [img EXCEPT !.listener = ~img.complete]
  IN IF img.lazy /\ img.dataSrc /\ ~img.src
     THEN [listened EXCEPT !.src = TRUE, !.complete = FALSE]
     ELSE listened

countComplete(images) == Cardinality({i \in DOMAIN images : images[i].complete})

\* ensureImagesLoaded up to setTimeout(resolve, 3000)
ensureImagesLoaded(pr) ==
  [pr EXCEPT !.images = [i \in DOMAIN pr.images |-> checkImage(pr.images[i])],
             !.loadedImages = countComplete(pr.images),
             !.settled = (countComplete(pr.images) = Len(pr.images))]

\* the synchronous part of preparePage and what the listener does with a
\* promise that rejects at once
PreparePage ==
  /\ prep.phase = "idle"
  /\ prep' =
       IF prep.fault \in {"storeOriginalStyles", "applyPrintStyles"}
       THEN [prep EXCEPT !.phase = "answered", !.answer = "failure",
                         !.ran = IF prep.fault = "applyPrintStyles"
                                 THEN <<"storeOriginalStyles">> ELSE <<>>]
       ELSE IF prep.fault = "ensureImagesLoaded"
       THEN [prep EXCEPT !.phase = "unanswered",
                         !.ran = <<"storeOriginalStyles", "applyPrintStyles">>]
       ELSE [ensureImagesLoaded(prep) EXCEPT
               !.phase = "images",
               !.ran = <<"storeOriginalStyles", "applyPrintStyles">>]
  /\ UNCHANGED <<pipelineVars, vIn, vOut, canvas, page, response, document, templates, license, analytics>>

\* the load or error event of an image that was loading
ImageEvent(i) ==
  /\ prep.phase \in {"images", "delay", "answered", "unanswered"}
  /\ i \in DOMAIN prep.images
  /\ loading(prep.images[i])
  /\ LET counted == IF prep.images[i].listener THEN prep.loadedImages + 1
                    ELSE prep.loadedImages
     IN prep' = [prep EXCEPT !.images[i].complete = TRUE,
                             !.loadedImages = counted,
                             !.settled = @ \/ (prep.images[i].listener
                                                /\ counted = Len(prep.images))]
  /\ UNCHANGED <<pipelineVars, vIn, vOut, canvas, page, response, document, templates, license, analytics>>

\* 3000 ms after ensureImagesLoaded began: setTimeout(resolve, 3000)
ImageTimeout ==
  /\ prep.phase \in {"images", "delay", "answered", "unanswered"}
  /\ prep.fault # "ensureImagesLoaded"
  /\ ~prep.elapsed
  /\ prep' = [prep EXCEPT !.elapsed = TRUE, !.settled = TRUE]
  /\ UNCHANGED <<pipelineVars, vIn, vOut, canvas, page, response, document, templates, license, analytics>>

\* the then callback of ensureImagesLoaded: expandCollapsedContent and the
\* 500 ms timer; a throw here rejects a promise nobody handles
ImagesSettled ==
  /\ prep.phase = "images"
  /\ prep.settled
  /\ prep' = IF prep.fault = "expandCollapsedContent"
             THEN [prep EXCEPT !.phase = "unanswered"]
             ELSE [prep EXCEPT !.phase = "delay",
                               !.ran = Append(Append(@, "ensureImagesLoaded"),
                                              "expandCollapsedContent")]
  /\ UNCHANGED <<pipelineVars, vIn, vOut, canvas, page, response, document, templates, license, analytics>>

\* the 500 ms timer: preparePage resolves and the listener answers
DelayElapsed ==
  /\ prep.phase = "delay"
  /\ prep' = [prep EXCEPT !.phase = "answered", !.answer = "success"]
  /\ UNCHANGED <<pipelineVars, vIn, vOut, canvas, page, response, document, templates, license, analytics>>

InitPrepare ==
  /\ InitPipeline
  /\ analytics = NoAnalytics
  /\ license = NoLicense
  /\ templates = NoTemplates
  /\ premium = FALSE
  /\ vIn = NullConfig
  /\ vOut = NotCalled
  /\ canvas = BlankCanvas
  /\ page = NoPage
  /\ \E fault \in PrepareFaults, images \in ImageLists :
       prep = [NoPrep EXCEPT !.fault = fault, !.images = images]

NextPrepare ==
  \/ PreparePage
  \/ \E i \in 1..MaxImages : ImageEvent(i)
  \/ ImageTimeout
  \/ ImagesSettled
  \/ DelayElapsed

SpecPrepare == InitPrepare /\ [][NextPrepare]_vars

(***************************************************************************)
(* template-manager.js: saveTemplate, updateTemplate, deleteTemplate and   *)
(* importTemplates, as the background's message listener starts them: one  *)
(* call per message, none waiting for another.  Each call awaits           *)
(* getTemplates, then checks and builds the new list in one synchronous    *)
(* run and awaits setInLocal, which replaces the stored list.  A template  *)
(* is its id and name; the id a call generates is taken to be unique.      *)
(* `unlimited' is the answer of isFeatureAvailable(UNLIMITED_TEMPLATES).   *)
(***************************************************************************)
MAX_FREE_TEMPLATES == 3

\* the templates stored before the first call
OldIds == {-i : i \in 1..MAX_FREE_TEMPLATES}

OldTemplates(n) == [i \in 1..n |-> [id |-> -i, name |-> "old"]]

\* the operations a message may ask for: save, update and delete of a stored
\* template, import of one or two templates
OpKinds ==
  {[kind |-> "save", arg |-> 0]}
    \cup {[kind |-> k, arg |-> id] : k \in {"update", "delete"}, id \in OldIds}
    \cup {[kind |-> "import", arg |-> n] : n \in 1..2}

\* generateRandomString(8) for the k-th template call o creates
newId(o, k) == 10 * o + k

indexOf(list, id) ==
  IF \E i \in DOMAIN list : list[i].id = id
  THEN CHOOSE i \in DOMAIN list : list[i].id = id
  ELSE 0

remove(list, i) == SubSeq(list, 1, i - 1) \o SubSeq(list, i + 1, Len(list))

saveRefused_OffByOne(list, unlimited) == Len(list) > MAX_FREE_TEMPLATES /\ ~unlimited

\* saveTemplate: templates.length >= MAX_FREE_TEMPLATES && !isFeatureAvailable(...)
saveRefused(list, unlimited) == Len(list) >= MAX_FREE_TEMPLATES /\ ~unlimited

\* importTemplates: templates.length + importedTemplates.length > MAX_FREE_TEMPLATES
importRefused(list, n, unlimited) == Len(list) + n > MAX_FREE_TEMPLATES /\ ~unlimited

\* a message arrives: the call starts and awaits getTemplates
TemplateCall(o, op) ==
  /\ templates.ops[o].phase = "idle"
  /\ op \in OpKinds
  /\ templates' = [templates EXCEPT !.ops[o] =
       [IdleOp EXCEPT !.kind = op.kind, !.arg = op.arg, !.phase = "reading"]]
  /\ UNCHANGED <<pipelineVars, vIn, vOut, canvas, page, response, document, prep, license, analytics>>

\* getTemplates resolves with the stored list: the call checks, builds its
\* new list and calls setInLocal, or throws
TemplatesRead(o) ==
  /\ templates.ops[o].phase = "reading"
  /\ LET op == templates.ops[o]
         list == templates.stored
         at == indexOf(list, op.arg)
         refused ==
           CASE op.kind = "save" -> saveRefused(list, templates.unlimited)
             [] op.kind = "import" -> importRefused(list, op.arg, templates.unlimited)
             [] OTHER -> at = 0
         built ==
           CASE op.kind = "save" -> Append(list, [id |-> newId(o, 1), name |-> "new"])
             [] op.kind = "import" ->
                  list \o [k \in 1..op.arg |-> [id |-> newId(o, k), name |-> "imported"]]
             [] op.kind = "update" -> [list EXCEPT ![at].name = "updated"]
             [] OTHER -> remove(list, at)
     IN templates' = [templates EXCEPT !.ops[o] =
          IF refused THEN [op EXCEPT !.phase = "done", !.ok = FALSE]
          ELSE [op EXCEPT !.phase = "writing", !.pending = built]]
  /\ UNCHANGED <<pipelineVars, vIn, vOut, canvas, page, response, document, prep, license, analytics>>

\* setInLocal resolves: the stored list is the list the call built, and the
\* call reports success
TemplatesWritten(o) ==
  /\ templates.ops[o].phase = "writing"
  /\ templates' = [templates EXCEPT !.stored = templates.ops[o].pending,
                                    !.ops[o].phase = "done", !.ops[o].ok = TRUE]
  /\ UNCHANGED <<pipelineVars, vIn, vOut, canvas, page, response, document, prep, license, analytics>>

InitTemplates ==
  /\ InitPipeline
  /\ analytics = NoAnalytics
  /\ license = NoLicense
  /\ prep = NoPrep
  /\ premium = FALSE
  /\ vIn = NullConfig
  /\ vOut = NotCalled
  /\ canvas = BlankCanvas
  /\ page = NoPage
  /\ \E n \in 0..MAX_FREE_TEMPLATES, unlimited \in BOOLEAN :
       templates = [NoTemplates EXCEPT !.stored = OldTemplates(n), !.unlimited = unlimited]

NextTemplates ==
  \/ \E o \in Ops, op \in OpKinds : TemplateCall(o, op)
  \/ \E o \in Ops : TemplatesRead(o)
  \/ \E o \in Ops : TemplatesWritten(o)

SpecTemplates == InitTemplates /\ [][NextTemplates]_vars

(***************************************************************************)
(* The license manager (license-manager.js).  license.stored is the       *)
(* licenseInfo item of chrome.storage.sync, license.now the current date, *)
(* license.trialUntil the expiry date of the trial started last (NoDate   *)
(* when none was started or an activation or deactivation replaced it).   *)
(***************************************************************************)
MaxDays == 16

TRIAL_DAYS == 14

LICENSE_DAYS == 365

LicenseKeys == {"PDFBUDDY-KEY"}

updatePremiumFeatures(type) ==
  [f \in PremiumFeature |-> type \in {"premium", "trial"}]

\* setLicenseType: the fields, the features, then the save.
setLicenseType(lic, type, key, expiryDate) ==
  [lic EXCEPT !.licenseType = type, !.licenseKey = key,
              !.expiryDate = expiryDate,
              !.premiumFeatures = updatePremiumFeatures(type),
              !.stored = [type |-> type, key |-> key, expiryDate |-> expiryDate]]

verifyLicense(lic) ==
  IF lic.licenseKey = NoKey
    THEN setLicenseType(lic, "free", NoKey, NoDate)
    ELSE IF lic.expiryDate # NoDate /\ lic.expiryDate < lic.now
           THEN setLicenseType(lic, "free", NoKey, NoDate)
           ELSE lic

isFeatureAvailable(lic, feature) == lic.premiumFeatures[feature]

\* The module is loaded (the service worker starts): a new LicenseManager,
\* and initialize() runs up to its read of the stored licenseInfo.
LoadModule ==
  /\ license' = [NoLicense EXCEPT !.loading = TRUE, !.stored = license.stored,
                                  !.now = license.now,
                                  !.trialUntil = license.trialUntil]
  /\ UNCHANGED <<pipelineVars, vIn, vOut, canvas, page, response, document, prep, templates, analytics>>

\* initialize(), after the read: the stored license is taken over and, when
\* it is not free, verified.
LicenseInfoLoaded ==
  /\ license.loading
  /\ LET info == license.stored
         taken == IF info = NoLicenseInfo
                    THEN license
                    ELSE [license EXCEPT
                            !.licenseType = info.type,
                            !.licenseKey = info.key,
                            !.expiryDate = info.expiryDate,
                            !.premiumFeatures = updatePremiumFeatures(info.type)]
         verified == IF info # NoLicenseInfo /\ taken.licenseType # "free"
                       THEN verifyLicense(taken)
                       ELSE taken
     IN license' = [verified EXCEPT !.loading = FALSE, !.initialized = TRUE]
  /\ UNCHANGED <<pipelineVars, vIn, vOut, canvas, page, response, document, prep, templates, analytics>>

startTrial ==
  /\ license' = [setLicenseType(license, "trial", NoKey, license.now + TRIAL_DAYS)
                   EXCEPT !.trialUntil = license.now + TRIAL_DAYS]
  /\ UNCHANGED <<pipelineVars, vIn, vOut, canvas, page, response, document, prep, templates, analytics>>

activateLicense(licenseKey) ==
  /\ license' = [setLicenseType(license, "premium", licenseKey, license.now + LICENSE_DAYS)
                   EXCEPT !.trialUntil = NoDate]
  /\ UNCHANGED <<pipelineVars, vIn, vOut, canvas, page, response, document, prep, templates, analytics>>

deactivateLicense ==
  /\ license' = [setLicenseType(license, "free", NoKey, NoDate)
                   EXCEPT !.trialUntil = NoDate]
  /\ UNCHANGED <<pipelineVars, vIn, vOut, canvas, page, response, document, prep, templates, analytics>>

\* A day passes.
DayPasses ==
  /\ license.now < MaxDays
  /\ license' = [license EXCEPT !.now = @ + 1]
  /\ UNCHANGED <<pipelineVars, vIn, vOut, canvas, page, response, document, prep, templates, analytics>>

InitLicense ==
  /\ InitPipeline
  /\ analytics = NoAnalytics
  /\ templates = NoTemplates
  /\ prep = NoPrep
  /\ premium = FALSE
  /\ vIn = NullConfig
  /\ vOut = NotCalled
  /\ canvas = BlankCanvas
  /\ page = NoPage
  /\ license = [NoLicense EXCEPT !.loading = TRUE]

NextLicense ==
  \/ LoadModule
  \/ LicenseInfoLoaded
  \/ startTrial
  \/ \E licenseKey \in LicenseKeys : activateLicense(licenseKey)
  \/ deactivateLicense
  \/ DayPasses

SpecLicense == InitLicense /\ [][NextLicense]_vars

(***************************************************************************)
(* Analytics (part_013).  analytics.reading: initialize() awaits its read *)
(* of analyticsSettings, analytics.settings is what that read delivers    *)
(* (the value stored when the read was issued), analytics.stored the      *)
(* value in chrome.storage.sync, analytics.calls the number of trackEvent *)
(* calls made.                                                             *)
(***************************************************************************)
MaxEvents == 3

EventActions == {"generate", "create"}

trackEvent(an, event) ==
  IF ~an.initialized
    THEN [an EXCEPT !.eventQueue = Append(@, event)]
    ELSE IF ~an.enabled
           THEN an
           ELSE [an EXCEPT !.events = Append(@, event)]

\* this.eventQueue.forEach(event => this.trackEvent(...)) over the first n
\* entries of the queue, n being its length when forEach starts.
RECURSIVE forEachQueued(_, _, _)
forEachQueued(an, i, n) ==
  IF i > n THEN an ELSE forEachQueued(trackEvent(an, an.eventQueue[i]), i + 1, n)

\* A caller tracks an event.
TrackEventCall(event) ==
  /\ analytics.calls < MaxEvents
  /\ analytics' = [trackEvent(analytics, event) EXCEPT !.calls = @ + 1]
  /\ UNCHANGED <<pipelineVars, vIn, vOut, canvas, page, response, document, prep, templates, license>>

\* initialize(), after its read of the settings.
SettingsLoaded ==
  /\ analytics.reading
  /\ LET set == [analytics EXCEPT !.enabled = analytics.settings]
         processed == IF set.enabled /\ Len(set.eventQueue) > 0
                        THEN [forEachQueued(set, 1, Len(set.eventQueue))
                                EXCEPT !.eventQueue = <<>>]
                        ELSE set
     IN analytics' = [processed EXCEPT !.initialized = TRUE, !.reading = FALSE]
  /\ UNCHANGED <<pipelineVars, vIn, vOut, canvas, page, response, document, prep, templates, license>>

enable ==
  /\ analytics' = [analytics EXCEPT !.enabled = TRUE, !.stored = TRUE]
  /\ UNCHANGED <<pipelineVars, vIn, vOut, canvas, page, response, document, prep, templates, license>>

disable ==
  /\ analytics' = [analytics EXCEPT !.enabled = FALSE, !.stored = FALSE]
  /\ UNCHANGED <<pipelineVars, vIn, vOut, canvas, page, response, document, prep, templates, license>>

\* The module is loaded: new Analytics() and initialize() up to its read.
InitAnalytics ==
  /\ InitPipeline
  /\ license = NoLicense
  /\ templates = NoTemplates
  /\ prep = NoPrep
  /\ premium = FALSE
  /\ vIn = NullConfig
  /\ vOut = NotCalled
  /\ canvas = BlankCanvas
  /\ page = NoPage
  /\ \E enabled \in BOOLEAN :
       analytics = [NoAnalytics EXCEPT !.reading = TRUE, !.settings = enabled,
                                       !.stored = enabled]

NextAnalytics ==
  \/ \E event \in EventActions : TrackEventCall(event)
  \/ SettingsLoaded
  \/ enable
  \/ disable

SpecAnalytics == InitAnalytics /\ [][NextAnalytics]_vars

(***************************************************************************)
(* Properties.                                                             *)
(***************************************************************************)
StageOrder ==
  <<"preparePage", "captureVisibleTab", "processImage", "createPdfFromImage",
    "watermark", "pdfToDataUrl", "download">>

Rank(stage) == CHOOSE i \in DOMAIN StageOrder : StageOrder[i] = stage

\* the stages a request has to finish before its document may be downloaded
RequiredStages(r) ==
  {"preparePage", "captureVisibleTab", "processImage", "createPdfFromImage",
   "pdfToDataUrl"}
    \cup (IF hasWatermark(pdfOptions[r]) THEN {"watermark"} ELSE {})

Starts(r) == {i \in DOMAIN trace[r] : trace[r][i].ev = "start"}

Terminated == {"done", "failed"}

\* the pc values between Preparing and Downloading
Running ==
  {"wait_prepare", "prepare_unanswered", "wait_capture", "wait_process",
   "process_unanswered", "wait_download"}

\* C1: download is invoked at most once per request, only after every
\* required stage (watermarking included when configured) has finished
\* without error, with the complete document; a request with a failed stage
\* never invokes download.
DownloadOnlyWhenComplete ==
  \A r \in Reqs :
    /\ Len(downloads[r]) <= 1
    /\ Cardinality({i \in DOMAIN trace[r] : trace[r][i] = Call("download", "start")})
         = Len(downloads[r])
    /\ \A i \in DOMAIN trace[r] :
         trace[r][i] = Call("download", "start") =>
           /\ \A s \in RequiredStages(r) : \E j \in 1..(i - 1) : trace[r][j] = Call(s, "ok")
           /\ \A j \in 1..(i - 1) : trace[r][j].ev # "error"
    /\ (downloads[r] # <<>> /\ hasWatermark(pdfOptions[r])) =>
         downloads[r][1].watermarks = <<pdfOptions[r].watermarkConfig>>
    /\ (\E j \in DOMAIN trace[r] : trace[r][j].ev = "error" /\ trace[r][j].stage # "download")
         => downloads[r] = <<>>

DownloadedWithWatermark ==
  \E r \in Reqs :
    /\ pc[r] = "done"
    /\ hasWatermark(pdfOptions[r])
    /\ Len(downloads[r]) = 1
    /\ \E q \in Reqs : pc[q] = "failed" /\ downloads[q] = <<>>
                       /\ Call("watermark", "error") \in {trace[q][i] : i \in DOMAIN trace[q]}

\* C2: at no moment are two requests between Preparing and Downloading.
OneRequestInFlight == Cardinality({r \in Reqs : pc[r] \in Running}) <= 1

\* C3: the last-watermark slot holds a config only if some request applied
\* exactly that config successfully.
LastWatermarkOnlyAfterApplication ==
  lastWatermark # NullConfig =>
    \E r \in Reqs :
      /\ Call("watermark", "ok") \in {trace[r][i] : i \in DOMAIN trace[r]}
      /\ pdfOptions[r].watermarkConfig = lastWatermark

\* C4: within one request a stage starts only after the previous stage has
\* answered, in the order prepare, capture, process, create, watermark,
\* serialize, download, with no stage skipped (watermark aside, when none is
\* configured) or started twice.
StagesInOrder ==
  \A r \in Reqs : \A i \in DOMAIN trace[r] :
    LET c == trace[r][i] IN
      /\ c.ev = "start" =>
           /\ i > 1 => /\ trace[r][i - 1].ev = "ok"
                       /\ Rank(trace[r][i - 1].stage) < Rank(c.stage)
           /\ \A k \in 1..(Rank(c.stage) - 1) :
                (StageOrder[k] # "watermark" \/ hasWatermark(pdfOptions[r])) =>
                  \E j \in 1..(i - 1) : trace[r][j] = Call(StageOrder[k], "ok")
           /\ \A j \in 1..(i - 1) : trace[r][j] # c
      /\ c.ev # "start" => i > 1 /\ trace[r][i - 1] = Call(c.stage, "start")

AllSevenStagesRan ==
  \E r \in Reqs : pc[r] = "done" /\ Len(trace[r]) = 2 * Len(StageOrder)

\* C5: a progress event is emitted on entry to every stage, and a successful
\* request ends with an event whose done flag is true.
ProgressOnEveryState ==
  \A r \in Reqs :
    /\ Cardinality(Starts(r))
         = Cardinality({i \in DOMAIN events[r] : ~events[r][i].complete})
    /\ pc[r] = "done" => events[r] # <<>> /\ events[r][Len(events[r])].complete

\* C6: a request failed by capture, watermark rendering, assembly or the
\* download call ran no later stage, emitted exactly one terminal progress
\* event carrying the reason, answered its caller with that reason, and does
\* not hold the popup.
AbortingFailures ==
  {"Failed to capture tab", "Failed to create PDF from image",
   "Failed to add text watermark to PDF", "Failed to add image watermark to PDF",
   "Failed to convert PDF to data URL", "Download failed"}

FailureAborts ==
  \A r \in Reqs :
    (pc[r] = "failed" /\ result[r].error \in AbortingFailures) =>
      /\ ~result[r].success
      /\ Cardinality({i \in DOMAIN events[r] : events[r][i].complete}) = 1
      /\ events[r][Len(events[r])] =
           [progress |-> "Error", reason |-> result[r].error, complete |-> TRUE]
      /\ trace[r][Len(trace[r])].ev = "error"
      /\ downloads[r] # <<>> => result[r].error = "Download failed"
      /\ popupWaiting # r

NextRequestAfterFailure ==
  /\ pc[1] = "failed" /\ result[1].error = "Failed to capture tab"
  /\ req[1].entry = "popup" /\ req[2].entry = "popup"
  /\ pc[2] = "done" /\ Len(downloads[2]) = 1

\* C7: every request in flight eventually ends, with a download or an error.
EveryRequestTerminates ==
  \A r \in Reqs : (pc[r] \in InFlight) ~> (pc[r] \in Terminated)

\* C8: a request whose processImage message met no listener or a
\* success = false answer downloads the originally captured image in the
\* requested layout.
FallbackKeepsRequestedLayout ==
  \A r \in Reqs :
    (imageInfo[r].source = "fallback" /\ downloads[r] # <<>>) =>
      /\ downloads[r][1].image = "screenshot"
      /\ pdfOptions[r].pageLayout \in {"portrait", "landscape"} =>
           downloads[r][1].orientation = pdfOptions[r].pageLayout

\* C9: a request that reaches watermarking with an image watermark and no
\* entitlement fails with the premium-feature error and downloads nothing.
ImageWatermarkPremiumError ==
  \A r \in Reqs :
    ( /\ hasWatermark(pdfOptions[r])
      /\ pdfOptions[r].watermarkConfig.type = "image"
      /\ ~premium
      /\ Call("watermark", "start") \in {trace[r][i] : i \in DOMAIN trace[r]} ) =>
      /\ pc[r] = "failed"
      /\ result[r].error = "Image watermarks are a premium feature"
      /\ downloads[r] = <<>>

\* the sample colors and fonts that are in their domains, labelled by hand
InDomainColors ==
  { <<"#", "F", "F", "0", "0", "0", "0">>,
    <<"#", "f", "0", "0">>,
    <<"R", "e", "d">>,
    <<"r", "g", "b", "(", "1", ",", " ", "2", ",", "3", ")">>,
    <<"r", "g", "b", "a", "(", "1", ",", "2", ",", "3", ",", "0", ".", "5", ")">> }

InDomainFonts ==
  { <<"A", "r", "i", "a", "l">>,
    <<"'", "A", "r", "i", "a", "l", "'">>,
    <<"a", "r", "i", "a", "l">>,
    <<" ", "T", "i", "m", "e", "s", " ", "N", "e", "w", " ", "R", "o", "m", "a", "n">> }

\* validation kept every in-domain cosmetic field of cfg and replaced every
\* other one by its default
CosmeticFieldsDefaulted(cfg, v) ==
  /\ v # NullConfig
  /\ v.position = IF cfg.position \in {"center", "topLeft", "topRight", "bottomLeft",
                                       "bottomRight"}
                  THEN cfg.position ELSE "center"
  /\ v.opacity = IF cfg.opacity >= 0 /\ cfg.opacity <= 10 THEN cfg.opacity ELSE 5
  /\ v.color = IF cfg.color \in InDomainColors THEN cfg.color
               ELSE <<"#", "F", "F", "0", "0", "0", "0">>
  /\ v.fontSize = IF cfg.fontSize >= 8 /\ cfg.fontSize <= 72 THEN cfg.fontSize ELSE 48
  /\ v.fontFamily = IF cfg.fontFamily \in InDomainFonts THEN cfg.fontFamily
                    ELSE <<"A", "r", "i", "a", "l">>
  /\ v.rotation = IF cfg.rotation >= -180 /\ cfg.rotation <= 180 THEN cfg.rotation ELSE 0

\* C10 (as stated): validating any config object yields a config in which
\* every out-of-domain cosmetic field has its default and every in-domain
\* one is kept; the config is never rejected.
CosmeticDefaultsForAnyConfig ==
  (vOut.called /\ vIn # NullConfig) => CosmeticFieldsDefaulted(vIn, vOut.value)

\* C10 (amended): validating a config of type text whose text is a string
\* yields a text config in which every out-of-domain cosmetic field has its
\* default and every in-domain one is kept; the config is never rejected.
CosmeticDefaultsForTextConfig ==
  (vOut.called /\ vIn # NullConfig /\ vIn.type = "text" /\ vIn.text # UndefStr) =>
    /\ vOut.value.type = "text"
    /\ CosmeticFieldsDefaulted(vIn, vOut.value)

OutOfDomainTextDefaulted ==
  /\ vOut.called
  /\ vIn = OutOfDomainText
  /\ vOut.value.position = "center" /\ vOut.value.opacity = 5
  /\ vOut.value.color = Red /\ vOut.value.rotation = 0

\* C11: every text config that validation returned has a text of 1 to 100
\* characters.
ValidatedTextLength ==
  (vOut.called /\ vOut.value.type = "text") =>
    /\ Len(vOut.value.text) >= WATERMARK_TEXT_MIN_LENGTH
    /\ Len(vOut.value.text) <= WATERMARK_TEXT_MAX_LENGTH

\* C12: validating a validated config is the identity: the config read back
\* from the slot equals the config that was stored.
RevalidationIsIdentity == vOut.reread => vOut.again = vOut.value

RECURSIVE SumHeights(_)
SumHeights(slices) ==
  IF slices = <<>> THEN 0 ELSE Head(slices).height + SumHeights(Tail(slices))

\* C13: for an image of height H and page height P the planner emits
\* ceil(H/P) slices indexed 0..n-1, slice i covering i*P to min((i+1)*P, H):
\* contiguous, all but the last of height P, heights summing to H, and one
\* slice when H <= P.
SlicesPartitionImage ==
  page.phase = "responded" =>
    LET H == page.response.height
        P == page.pageHeight
        n == Len(page.slices)
    IN /\ n * P >= H /\ (n - 1) * P < H
       /\ \A i \in 1..n :
            /\ page.slices[i].index = i - 1
            /\ page.slices[i].offset = (i - 1) * P
            /\ page.slices[i].offset + page.slices[i].height = Min(i * P, H)
            /\ i < n => page.slices[i].height = P
            /\ page.slices[i].height > 0
       /\ SumHeights(page.slices) = H
       /\ H <= P => n = 1

ThreeSlicesLastShorter ==
  /\ page.phase = "responded"
  /\ Len(page.slices) = 3
  /\ page.slices[3].height < page.pageHeight

\* C14: a downloaded document has exactly one page per slice the Layout
\* Planner reported for its image (3000 px at an effective page height of
\* 1325 px gives three pages).
PageCountMatchesSlices ==
  \A r \in Reqs :
    (pc[r] = "done" /\ response[r].success) =>
      downloads[r][1].numberOfPages = response[r].pages

TilesCoverFullExtent ==
  (page.phase = "responded" /\ page.captureFullPage /\ page.extent > page.viewport) =>
    LET n == Len(page.tiles)
    IN /\ n = CeilDiv(page.extent, page.viewport)
       /\ page.tiles[1].offset = 0
       /\ \A i \in 1..(n - 1) :
            /\ page.tiles[i].height = page.viewport
            /\ page.tiles[i + 1].offset = page.tiles[i].offset + page.tiles[i].height
       /\ page.tiles[n].offset + page.tiles[n].height = page.extent
       /\ page.response.height = page.extent

FullPageOfThreeTiles ==
  /\ page.phase = "responded"
  /\ page.captureFullPage
  /\ Len(page.tiles) = 3
  /\ page.tiles[3].height < page.viewport
  /\ \A i \in DOMAIN page.tiles : page.tiles[i].drawn

\* C18: the orientation of a downloaded document is the planned one on every
\* path: for pageLayout auto, landscape iff the image is wider than tall; for
\* portrait or landscape, the requested one, also when the page side gave no
\* usable answer and the defaults are used.
OrientationFollowsLayout ==
  \A r \in Reqs :
    downloads[r] # <<>> =>
      downloads[r][1].orientation =
        planOrientation(processImageOptions(pdfOptions[r]).pageLayout,
                        imageInfo[r].width, imageInfo[r].height)

\* C19: rendering a watermark leaves the document's graphics state as it
\* was before the call on every exit path: each save is matched by one
\* restore, when rendering completes and when it fails with an error.
GraphicsStateRestored ==
  \A r \in Reqs :
    document[r] # NoPdf =>
      /\ document[r].stack = <<>>
      /\ document[r].gstate = InitialGState

\* C20: the anchor of a drawn text watermark is the position table's value
\* for its position and the surface's width W and height H (center W/2, H/2;
\* topLeft 0.1 W, 0.1 H; topRight 0.9 W, 0.1 H; bottomLeft 0.1 W, 0.9 H;
\* bottomRight 0.9 W, 0.9 H), and its rotation in radians is the configured
\* degrees times pi / 180.
AnchorFollowsPositionTable ==
  \A i \in DOMAIN canvas.drawn :
    LET config == IF vIn.type = Undef THEN validateWatermarkConfig(vIn) ELSE vIn
        at == canvas.drawn[i].state.translate
        angle == canvas.drawn[i].state.rotate
        W == canvas.width
        H == canvas.height
    IN /\ config.position = "center" => 2 * at.x = W /\ 2 * at.y = H
       /\ config.position = "topLeft" => 10 * at.x = W /\ 10 * at.y = H
       /\ config.position = "topRight" => 10 * at.x = 9 * W /\ 10 * at.y = H
       /\ config.position = "bottomLeft" => 10 * at.x = W /\ 10 * at.y = 9 * H
       /\ config.position = "bottomRight" => 10 * at.x = 9 * W /\ 10 * at.y = 9 * H
       /\ config.rotation # NotANumber =>
            angle.den > 0 /\ angle.num * 180 = config.rotation * angle.den

TopRightOfEightHundredBySixHundred ==
  /\ Len(canvas.drawn) = 1
  /\ vIn.position = "topRight"
  /\ canvas.drawn[1].state.translate = [x |-> 720, y |-> 60]
  /\ canvas.drawn[1].state.rotate = [num |-> -1, den |-> 1]

\* C21: a text watermark is drawn center-aligned at its anchor for position
\* center, left-aligned for topLeft and bottomLeft, and right-aligned for
\* topRight and bottomRight.
TextAlignedByPosition ==
  \A i \in DOMAIN canvas.drawn :
    LET config == IF vIn.type = Undef THEN validateWatermarkConfig(vIn) ELSE vIn
        textAlign == canvas.drawn[i].state.textAlign
    IN /\ config.position = "center" => textAlign = "center"
       /\ config.position \in {"topLeft", "bottomLeft"} => textAlign = "left"
       /\ config.position \in {"topRight", "bottomRight"} => textAlign = "right"

\* C22: page preparation always completes: whichever step fails, the
\* remaining steps still run and the preparePage request is answered.
PreparationAlwaysCompletes ==
  /\ prep.phase # "unanswered"
  /\ prep.phase = "answered" =>
       \A i \in DOMAIN PrepareSteps :
         PrepareSteps[i] # prep.fault =>
           \E j \in DOMAIN prep.ran : prep.ran[j] = PrepareSteps[i]

\* C23: the image-settle step never finishes while a discovered image,
\* lazy ones the preparer forces included, is still loading and the 3
\* seconds have not elapsed.
ImagesSettleOnlyWhenLoadedOrTimedOut ==
  prep.settled => (prep.elapsed \/ \A i \in DOMAIN prep.images : ~loading(prep.images[i]))

\* C24: without the unlimited-templates entitlement the stored list never
\* holds more than 3 templates, under every interleaving of save, import,
\* update and delete, and a refused call has written nothing.
FreeTemplatesAtMostThree ==
  ~templates.unlimited =>
    /\ Len(templates.stored) <= MAX_FREE_TEMPLATES
    /\ \A o \in Ops :
         /\ templates.ops[o].phase = "writing" =>
              Len(templates.ops[o].pending) <= MAX_FREE_TEMPLATES
         /\ (templates.ops[o].phase = "done" /\ ~templates.ops[o].ok) =>
              \A i \in DOMAIN templates.stored :
                templates.stored[i].id \notin {newId(o, 1), newId(o, 2)}

SaveRefusedAtThree ==
  /\ ~templates.unlimited
  /\ Len(templates.stored) = MAX_FREE_TEMPLATES
  /\ \E o \in Ops : /\ templates.ops[o].kind = "save"
                    /\ templates.ops[o].phase = "done"
                    /\ ~templates.ops[o].ok
  /\ \E o \in Ops : templates.ops[o].kind \in {"save", "import"} /\ templates.ops[o].ok

\* C26: once every template operation has finished, every saveTemplate call
\* that reported success has its template in the stored list.
SavedTemplatesKept ==
  (\A o \in Ops : templates.ops[o].phase \in {"idle", "done"}) =>
    \A o \in Ops :
      (templates.ops[o].kind = "save" /\ templates.ops[o].ok) =>
        \E i \in DOMAIN templates.stored : templates.stored[i].id = newId(o, 1)

\* C25: a request that does not specify captureFullPage captures the
\* current screen only, whichever entry point started it.
CaptureFullPageDefaultsToFalse ==
  \A r \in Reqs :
    (pc[r] # "idle" /\ pdfOptions[r] # NoOptions /\ req[r].captureFullPage = Undef) =>
      ~processImageOptions(pdfOptions[r]).captureFullPage

\* C27: after startTrial the license manager, once initialised, reports the
\* trial license and every premium feature as available on every day up to
\* the trial's expiry date, also after the module was loaded again.
TrialLastsUntilExpiry ==
  (/\ license.trialUntil # NoDate
   /\ license.now <= license.trialUntil
   /\ license.initialized)
    => /\ license.licenseType = "trial"
       /\ \A f \in PremiumFeature : isFeatureAvailable(license, f)

\* C28: no premium feature is available while the expiry date lies in the
\* past, and a premium feature is available only under a premium or trial
\* license.
ExpiredLicenseGrantsNothing ==
  /\ (license.expiryDate # NoDate /\ license.expiryDate < license.now)
       => \A f \in PremiumFeature : ~isFeatureAvailable(license, f)
  /\ (\E f \in PremiumFeature : isFeatureAvailable(license, f))
       => license.licenseType \in {"premium", "trial"}

\* C29: when initialisation finishes with analytics enabled, the events
\* held in the queue are appended to the event list once each, in the
\* order in which they were tracked.
QueuedEventsRecordedOnce ==
  [][(analytics.reading /\ ~analytics'.reading /\ analytics'.enabled)
       => analytics'.events = analytics.events \o analytics.eventQueue]_vars

\* C30: from a disable() on, until the next enable(), nothing is appended
\* to the event list (the stored setting is false exactly in that span).
NothingRecordedWhileDisabled ==
  [][(~analytics.stored /\ ~analytics'.stored)
       => analytics'.events = analytics.events]_vars

====
